---- MODULE Spec2Model ----
(***************************************************************************)
(* Model of the S3 protocol-adaptation layer:                              *)
(*   - ops/put_object.rs : extract (PutObject request extraction) and the  *)
(*     PutObjectOutput serializer,                                         *)
(*   - service/mod.rs    : S3Service::hyper_call / handle (method router), *)
(*   - storage/mod.rs    : the S3Storage interface the router holds.       *)
(* Strings are TLA+ strings; a string is read one character at a time with *)
(* SubSeq, so prefix tests, splitting and case folding are computed.       *)
(***************************************************************************)
EXTENDS Integers, Sequences, FiniteSets, TLC

VARIABLES req, phase, result,      \* one call of ops::put_object::extract
          output, response,        \* one call of PutObjectOutput::try_into_response
          method, pc, outcome, trace, strong   \* requests served by one S3Service

vars == <<req, phase, result, output, response, method, pc, outcome, trace, strong>>
extractVars == <<req, phase, result>>
outputVars  == <<output, response>>
serviceVars == <<method, pc, outcome, trace, strong>>

(***************************************************************************)
(* Bounds of the model.                                                    *)
(***************************************************************************)
MaxHeaders == 2     \* headers drawn freely from the pool, per request
MaxFields == 2      \* form fields drawn freely from the pool, per multipart payload
NumRequests == 3    \* requests served concurrently by one service

(***************************************************************************)
(* Option<T>                                                               *)
(***************************************************************************)
None == [some |-> FALSE]
Some(v) == [some |-> TRUE, val |-> v]

(***************************************************************************)
(* str helpers of the Rust standard library used by the code.              *)
(***************************************************************************)
UpperAlphabet == "ABCDEFGHIJKLMNOPQRSTUVWXYZ"
LowerAlphabet == "abcdefghijklmnopqrstuvwxyz"
DecimalDigits == "0123456789"

CharAt(s, i) == SubSeq(s, i, i)
Tail1(s) == SubSeq(s, 2, Len(s))

UpperToLower ==
    [c \in {CharAt(UpperAlphabet, i) : i \in 1..Len(UpperAlphabet)} |->
        CharAt(LowerAlphabet, CHOOSE i \in 1..Len(UpperAlphabet) : CharAt(UpperAlphabet, i) = c)]

\* u8::to_ascii_lowercase on one character
lower_char(c) == IF c \in DOMAIN UpperToLower THEN UpperToLower[c] ELSE c

RECURSIVE to_ascii_lowercase(_)
to_ascii_lowercase(s) ==
    IF s = "" THEN "" ELSE lower_char(CharAt(s, 1)) \o to_ascii_lowercase(Tail1(s))

\* str::starts_with: byte-wise, case-sensitive
starts_with(s, p) == Len(s) >= Len(p) /\ SubSeq(s, 1, Len(p)) = p

\* the second half of str::split_at(n)
split_at_rest(s, n) == SubSeq(s, n + 1, Len(s))

(***************************************************************************)
(* str::parse::<i64>() (put_object.rs:96).  An i64 does not fit a TLC      *)
(* integer, so a value is kept as sign and decimal magnitude (no leading   *)
(* zeros, "0" for zero) and the checked multiply-by-ten / add-digit steps  *)
(* of the parser are done on the magnitude with the exact i64 limits.      *)
(***************************************************************************)
I64MaxMag == "9223372036854775807"
I64MinMag == "9223372036854775808"

DigitValues ==
    [c \in {CharAt(DecimalDigits, i) : i \in 1..Len(DecimalDigits)} |->
        (CHOOSE i \in 1..Len(DecimalDigits) : CharAt(DecimalDigits, i) = c) - 1]
IsDigit(c) == c \in DOMAIN DigitValues
DigitVal(c) == DigitValues[c]

RECURSIVE DigitsLexLeq(_, _)
DigitsLexLeq(a, b) ==      \* equal lengths
    IF a = "" THEN TRUE
    ELSE IF DigitVal(CharAt(a, 1)) < DigitVal(CharAt(b, 1)) THEN TRUE
    ELSE IF DigitVal(CharAt(a, 1)) > DigitVal(CharAt(b, 1)) THEN FALSE
    ELSE DigitsLexLeq(Tail1(a), Tail1(b))

MagLeq(a, b) == Len(a) < Len(b) \/ (Len(a) = Len(b) /\ DigitsLexLeq(a, b))

\* acc * 10 + d on magnitudes
MulTenAdd(acc, d) == IF acc = "0" THEN d ELSE acc \o d

ParseErr(kind) == [ok |-> FALSE, err |-> kind]

RECURSIVE parse_digits(_, _, _)
parse_digits(digits, acc, positive) ==
    IF digits = "" THEN [ok |-> TRUE, val |-> [neg |-> (~positive) /\ acc # "0", mag |-> acc]]
    ELSE LET c == CharAt(digits, 1) IN
         IF ~IsDigit(c) THEN ParseErr("InvalidDigit")
         ELSE LET next == MulTenAdd(acc, c) IN
              IF positive /\ ~MagLeq(next, I64MaxMag) THEN ParseErr("PosOverflow")
              ELSE IF (~positive) /\ ~MagLeq(next, I64MinMag) THEN ParseErr("NegOverflow")
              ELSE parse_digits(Tail1(digits), next, positive)

parse_i64(src) ==
    IF src = "" THEN ParseErr("Empty")
    ELSE LET c == CharAt(src, 1) IN
         IF c \in {"+", "-"} /\ Len(src) = 1 THEN ParseErr("InvalidDigit")
         ELSE IF c = "+" THEN parse_digits(Tail1(src), "0", TRUE)
         ELSE IF c = "-" THEN parse_digits(Tail1(src), "0", FALSE)
         ELSE parse_digits(src, "0", TRUE)

(***************************************************************************)
(* Byte streams: a finite sequence of chunks, each a chunk of bytes or an  *)
(* error.  origin records which resource the stream reads from.            *)
(***************************************************************************)
OkChunk(data) == [ok |-> TRUE, data |-> data]
ErrChunk(e) == [ok |-> FALSE, err |-> e]

\* Body::wrap_stream (put_object.rs:72): a Body that yields the stream's items
Body_wrap_stream(stream) == [origin |-> stream.origin, chunks |-> stream.chunks]

\* the closure of transform_stream: map_err to io::ErrorKind::Other
map_chunk(c) ==
    IF c.ok THEN c
    ELSE [ok |-> FALSE, err |-> [kind |-> "Other", msg |-> "Error obtaining chunk: " \o c.err]]

transform_stream(body) ==
    [bytestream |-> TRUE, origin |-> body.origin,
     chunks |-> [i \in 1..Len(body.chunks) |-> map_chunk(body.chunks[i])]]

(***************************************************************************)
(* The request's header block.  hyper keeps header names lower-cased, so   *)
(* the names the extractor iterates over are the wire names lower-cased;   *)
(* values and order are kept.                                              *)
(***************************************************************************)
HeaderMap(wire) == [i \in 1..Len(wire) |-> <<to_ascii_lowercase(wire[i][1]), wire[i][2]>>]

\* OrderedHeaders: the (name, value) pairs of the header block, in order
OrderedHeaders(hm) == hm

\* RequestExt::get_header_str: the first value of the header, if any
get_header_str(hm, name) ==
    LET idx == {i \in 1..Len(hm) : hm[i][1] = name}
    IN IF idx = {} THEN None ELSE Some(hm[CHOOSE i \in idx : \A j \in idx : i <= j][2])

\* RequestExt::assign_from_optional_header: set the field when the header is there
assign_from_optional_header(hm, name, input, field) ==
    LET v == get_header_str(hm, name)
    IN IF v.some THEN [input EXCEPT ![field] = Some(v.val)] ELSE input

\* Multipart::assign_from_optional_field: exact, case-sensitive field name
assign_from_optional_field(fields, name, input, field) ==
    LET idx == {i \in 1..Len(fields) : fields[i][1] = name}
    IN IF idx = {} THEN input
       ELSE [input EXCEPT ![field] = Some(fields[CHOOSE i \in idx : \A j \in idx : i <= j][2])]

(***************************************************************************)
(* PutObjectRequest                                                        *)
(***************************************************************************)
\* (header, field) in the order of put_object.rs:99-150
HeaderAssignments == <<
    <<"x-amz-acl", "acl">>,
    <<"cache-control", "cache_control">>,
    <<"content-disposition", "content_disposition">>,
    <<"content-encoding", "content_encoding">>,
    <<"content-language", "content_language">>,
    <<"content-md5", "content_md5">>,
    <<"content-type", "content_type">>,
    <<"expires", "expires">>,
    <<"x-amz-grant-full-control", "grant_full_control">>,
    <<"x-amz-grant-read", "grant_read">>,
    <<"x-amz-grant-read-acp", "grant_read_acp">>,
    <<"x-amz-grant-write-acp", "grant_write_acp">>,
    <<"x-amz-server-side-encryption", "server_side_encryption">>,
    <<"x-amz-storage-class", "storage_class">>,
    <<"x-amz-website-redirect-location", "website_redirect_location">>,
    <<"x-amz-server-side-encryption-customer-algorithm", "sse_customer_algorithm">>,
    <<"x-amz-server-side-encryption-customer-key", "sse_customer_key">>,
    <<"x-amz-server-side-encryption-customer-key-md5", "sse_customer_key_md5">>,
    <<"x-amz-server-side-encryption-aws-kms-key-id", "ssekms_key_id">>,
    <<"x-amz-server-side-encryption-context", "ssekms_encryption_context">>,
    <<"x-amz-request-payer", "request_payer">>,
    <<"x-amz-tagging", "tagging">>,
    <<"x-amz-object-lock-mode", "object_lock_mode">>,
    <<"x-amz-object-lock-retain-until-date", "object_lock_retain_until_date">>,
    <<"x-amz-object-lock-legal-hold", "object_lock_legal_hold_status">> >>

\* (form field, field) in the order of put_object.rs:47-51
FieldAssignments == <<
    <<"acl", "acl">>,
    <<"content-type", "content_type">>,
    <<"expires", "expires">>,
    <<"tagging", "tagging">>,
    <<"x-amz-storage-class", "storage_class">> >>

OptionalFields ==
    {HeaderAssignments[i][2] : i \in 1..Len(HeaderAssignments)}
        \cup {"content_length", "metadata", "body"}

\* PutObjectRequest { bucket, key, body: None, ..default() }
NewPutObjectRequest(bucket, key) ==
    [f \in OptionalFields \cup {"bucket", "key"} |->
        IF f = "bucket" THEN bucket ELSE IF f = "key" THEN key ELSE None]

(***************************************************************************)
(* ops::put_object::extract                                                *)
(***************************************************************************)
meta_prefix == "x-amz-meta-"

\* faulty variant: an entry already there is kept (first write wins)
HashMap_insert_keep_old(m, k, v) ==
    [x \in DOMAIN m \cup {k} |-> IF x \in DOMAIN m THEN m[x] ELSE v]

\* HashMap::insert: the new value replaces the old one
HashMap_insert(m, k, v) == [x \in DOMAIN m \cup {k} |-> IF x = k THEN v ELSE m[x]]
EmptyMap == [x \in {} |-> ""]

\* faulty variant: the empty key is inserted too
header_meta_step_keep_empty(metadata, name, value) ==
    IF starts_with(name, meta_prefix)
    THEN HashMap_insert(metadata, split_at_rest(name, Len(meta_prefix)), value)
    ELSE metadata

\* one turn of the loop over the headers, put_object.rs:153-161
header_meta_step(metadata, name, value) ==
    IF starts_with(name, meta_prefix)
    THEN LET meta_key == split_at_rest(name, Len(meta_prefix))
         IN IF meta_key # "" THEN HashMap_insert(metadata, meta_key, value) ELSE metadata
    ELSE metadata

RECURSIVE header_meta_loop(_, _, _)
header_meta_loop(headers, i, metadata) ==
    IF i > Len(headers) THEN metadata
    ELSE header_meta_loop(headers, i + 1, header_meta_step(metadata, headers[i][1], headers[i][2]))

\* one turn of the loop over the form fields, put_object.rs:54-63
field_meta_step(metadata, name, value) ==
    LET lname == to_ascii_lowercase(name)
    IN IF starts_with(lname, meta_prefix)
       THEN LET meta_key == split_at_rest(lname, Len(meta_prefix))
            IN IF meta_key # "" THEN HashMap_insert(metadata, meta_key, value) ELSE metadata
       ELSE metadata

RECURSIVE field_meta_loop(_, _, _)
field_meta_loop(fields, i, metadata) ==
    IF i > Len(fields) THEN metadata
    ELSE field_meta_loop(fields, i + 1, field_meta_step(metadata, fields[i][1], fields[i][2]))

\* if !metadata.is_empty() { input.metadata = Some(metadata) }
assign_metadata(input, metadata) ==
    IF DOMAIN metadata # {} THEN [input EXCEPT !["metadata"] = Some(metadata)] ELSE input

RECURSIVE assign_headers(_, _, _)
assign_headers(hm, i, input) ==
    IF i > Len(HeaderAssignments) THEN input
    ELSE assign_headers(hm, i + 1,
            assign_from_optional_header(hm, HeaderAssignments[i][1], input, HeaderAssignments[i][2]))

RECURSIVE assign_fields(_, _, _)
assign_fields(fields, i, input) ==
    IF i > Len(FieldAssignments) THEN input
    ELSE assign_fields(fields, i + 1,
            assign_from_optional_field(fields, FieldAssignments[i][1], input, FieldAssignments[i][2]))

\* the body of the multipart path, put_object.rs:69-74
multipart_body(multipart) == Some(transform_stream(Body_wrap_stream(multipart.file.stream)))

\* the body of the direct path, put_object.rs:167
direct_body(body) == Some(transform_stream(body))

\* faulty variant: the file part's stream is not moved into the request
extract_from_multipart_no_body(input, multipart) ==
    assign_metadata(assign_fields(multipart.fields, 1, input),
                    field_meta_loop(multipart.fields, 1, EmptyMap))

extract_from_multipart(input, multipart) ==
    LET assigned == assign_fields(multipart.fields, 1, input)
        metadata == field_meta_loop(multipart.fields, 1, EmptyMap)
        withMeta == assign_metadata(assigned, metadata)
    IN [withMeta EXCEPT !["body"] = multipart_body(multipart)]

\* faulty variant: a value that does not parse leaves the field unset (.parse().ok())
assign_content_length_lenient(hm, input) ==
    LET cl == get_header_str(hm, "content-length")
        parsed == parse_i64(cl.val)
    IN IF cl.some /\ parsed.ok
       THEN [ok |-> TRUE, input |-> [input EXCEPT !["content_length"] = Some(parsed.val)]]
       ELSE [ok |-> TRUE, input |-> input]

\* put_object.rs:95-97: parse the Content-Length header, fail if it does not parse
assign_content_length(hm, input) ==
    LET cl == get_header_str(hm, "content-length")
    IN IF ~cl.some THEN [ok |-> TRUE, input |-> input]
       ELSE LET parsed == parse_i64(cl.val)
            IN IF parsed.ok
               THEN [ok |-> TRUE, input |-> [input EXCEPT !["content_length"] = Some(parsed.val)]]
               ELSE [ok |-> FALSE, err |-> parsed.err]

extract(r) ==
    LET input0 == NewPutObjectRequest(r.bucket, r.key)
        hm == HeaderMap(r.headers)
        parsed == assign_content_length(hm, input0)
    IN IF ~parsed.ok THEN [ok |-> FALSE, err |-> parsed.err]
       ELSE LET input1 == parsed.input
                input2 == assign_headers(hm, 1, input1)
                metadata == header_meta_loop(OrderedHeaders(hm), 1, EmptyMap)
                input3 == assign_metadata(input2, metadata)
            IN IF r.multipart.some
               THEN [ok |-> TRUE, input |-> extract_from_multipart(input3, r.multipart.val)]
               ELSE [ok |-> TRUE, input |-> [input3 EXCEPT !["body"] = direct_body(r.body)]]

(***************************************************************************)
(* PutObjectOutput::try_into_response                                      *)
(***************************************************************************)
\* faulty variant: the SSE-C key MD5 and the KMS key id are written to each other's header
OutputAssignmentsSwapped == <<
    <<"x-amz-expiration", "expiration">>,
    <<"etag", "e_tag">>,
    <<"x-amz-server-side-encryption", "server_side_encryption">>,
    <<"x-amz-version-id", "version_id">>,
    <<"x-amz-server-side-encryption-customer-algorithm", "sse_customer_algorithm">>,
    <<"x-amz-server-side-encryption-customer-key-md5", "ssekms_key_id">>,
    <<"x-amz-server-side-encryption-aws-kms-key-id", "sse_customer_key_md5">>,
    <<"x-amz-server-side-encryption-context", "ssekms_encryption_context">>,
    <<"x-amz-request-charged", "request_charged">> >>

\* (header, field) in the order of put_object.rs:177-200
OutputAssignments == <<
    <<"x-amz-expiration", "expiration">>,
    <<"etag", "e_tag">>,
    <<"x-amz-server-side-encryption", "server_side_encryption">>,
    <<"x-amz-version-id", "version_id">>,
    <<"x-amz-server-side-encryption-customer-algorithm", "sse_customer_algorithm">>,
    <<"x-amz-server-side-encryption-customer-key-md5", "sse_customer_key_md5">>,
    <<"x-amz-server-side-encryption-aws-kms-key-id", "ssekms_key_id">>,
    <<"x-amz-server-side-encryption-context", "ssekms_encryption_context">>,
    <<"x-amz-request-charged", "request_charged">> >>

OutputFields == {OutputAssignments[i][2] : i \in 1..Len(OutputAssignments)}

\* ResponseExt::set_optional_header: insert the header when the value is there
set_optional_header(res, name, opt) ==
    IF opt.some THEN [res EXCEPT !.headers = HashMap_insert(res.headers, name, opt.val)] ELSE res

RECURSIVE set_output_headers(_, _, _)
set_output_headers(out, i, res) ==
    IF i > Len(OutputAssignments) THEN res
    ELSE set_output_headers(out, i + 1,
            set_optional_header(res, OutputAssignments[i][1], out[OutputAssignments[i][2]]))

\* output::wrap_output: a fresh response handed to the closure
wrap_output_new == [headers |-> EmptyMap]

try_into_response(out) == [ok |-> TRUE, res |-> set_output_headers(out, 1, wrap_output_new)]

(***************************************************************************)
(* S3Service                                                               *)
(***************************************************************************)
Reqs == 1..NumRequests
SupportedMethods == {"GET", "POST", "PUT", "DELETE", "HEAD"}
Methods == SupportedMethods \cup {"PATCH", "OPTIONS"}

\* handle_get .. handle_head: todo!() panics when the handler is entered
todo_handler(name) == [kind |-> "panic", handler |-> name, msg |-> "not yet implemented"]

\* anyhow::bail!("Not supported")
bail_not_supported == [kind |-> "err", handler |-> "none", msg |-> "Not supported"]

\* faulty variant: the HEAD arm is missing
method_match_no_head(m) ==
    CASE m = "GET" -> todo_handler("handle_get")
      [] m = "POST" -> todo_handler("handle_post")
      [] m = "PUT" -> todo_handler("handle_put")
      [] m = "DELETE" -> todo_handler("handle_delete")
      [] OTHER -> bail_not_supported

\* the match on the request's method, service/mod.rs:89-96
method_match(m) ==
    CASE m = "GET" -> todo_handler("handle_get")
      [] m = "POST" -> todo_handler("handle_post")
      [] m = "PUT" -> todo_handler("handle_put")
      [] m = "DELETE" -> todo_handler("handle_delete")
      [] m = "HEAD" -> todo_handler("handle_head")
      [] OTHER -> bail_not_supported

\* faulty variant: the service keeps a failure flag that every later request reads
handle_shared_failure(m) ==
    IF \E q \in 1..NumRequests : outcome[q].kind = "err"
    THEN bail_not_supported ELSE method_match(m)

\* S3Service::handle: reads the request only (&self is never written)
handle(m) == method_match(m)

\* what the future of hyper_call does when polled: log, handle, log
call_future(m) ==
    LET h == handle(m)
    IN [outcome |-> [kind |-> h.kind, msg |-> h.msg],
        trace |-> <<"log_request", "handle">>
                    \o (IF h.kind = "panic" THEN <<h.handler>> ELSE <<"log_error">>)]

NoOutcome == [kind |-> "none", msg |-> ""]

(***************************************************************************)
(* Inputs                                                                  *)
(***************************************************************************)
SeqUpTo(S, n) == UNION {[1..k -> S] : k \in 0..n}

ContentLengthNames == {"Content-Length", "content-length"}
ContentLengthValues ==
    {"42", "0", "+42", "-7", "007", "-0", "abc", "", "12a", " 42", "4 2", "-", "+", "--1", "1.0",
     "9223372036854775807", "9223372036854775808", "-9223372036854775808",
     "-9223372036854775809", "99999999999999999999"}

HeaderPool ==
    {<<"x-amz-meta-Foo", "1">>, <<"x-amz-meta-foo", "2">>, <<"X-Amz-Meta-Bar", "3">>,
     <<"x-amz-meta-", "x">>, <<"x-amz-meta", "y">>, <<"x-amz-meta-x-amz-meta-a", "4">>,
     <<"x-amz-acl", "private">>, <<"Content-Type", "text/plain">>, <<"Expires", "soon">>,
     <<"x-amz-tagging", "t=1">>, <<"x-amz-storage-class", "STANDARD">>,
     <<"Content-Length", "42">>}

MultipartHeaderLists ==
    {<< >>,
     << <<"x-amz-acl", "private">> >>,
     << <<"x-amz-meta-Foo", "1">> >>,
     << <<"x-amz-acl", "private">>, <<"Content-Type", "text/plain">>, <<"Expires", "soon">>,
        <<"x-amz-tagging", "t=1">>, <<"x-amz-storage-class", "STANDARD">>,
        <<"x-amz-meta-Foo", "1">> >>}

FieldPool ==
    {<<"acl", "public-read">>, <<"Acl", "authenticated-read">>, <<"content-type", "image/png">>,
     <<"expires", "never">>, <<"tagging", "k=v">>, <<"x-amz-storage-class", "GLACIER">>,
     <<"x-amz-meta-Foo", "5">>, <<"X-AMZ-META-foo", "6">>, <<"x-amz-meta-", "7">>,
     <<"key", "k">>}

TransportBodies ==
    {[origin |-> "transport", chunks |-> << OkChunk("hello") >>],
     [origin |-> "transport", chunks |-> << OkChunk("he"), ErrChunk("connection reset") >>]}

\* the transport body left over once the multipart parser has read it
ConsumedBody == [origin |-> "transport", chunks |-> << >>]

FileStreams ==
    {[origin |-> "file", chunks |-> << OkChunk("hello") >>],
     [origin |-> "file", chunks |-> << ErrChunk("unexpected eof") >>]}

ContentLengthRequests ==
    {[bucket |-> "b", key |-> "k", headers |-> << <<n, v>> >> \o rest,
      body |-> [origin |-> "transport", chunks |-> << OkChunk("hello") >>], multipart |-> None] :
        n \in ContentLengthNames, v \in ContentLengthValues,
        rest \in {<< >>, << <<"x-amz-meta-Foo", "1">> >>}}

DirectRequests ==
    {[bucket |-> "b", key |-> "k", headers |-> hs, body |-> b, multipart |-> None] :
        hs \in SeqUpTo(HeaderPool, MaxHeaders), b \in TransportBodies}

MultipartRequests ==
    {[bucket |-> "b", key |-> "k", headers |-> hs, body |-> ConsumedBody,
      multipart |-> Some([fields |-> fs, file |-> [filename |-> "a.txt", stream |-> st]])] :
        hs \in MultipartHeaderLists, fs \in SeqUpTo(FieldPool, MaxFields), st \in FileStreams}

ExtractRequests == ContentLengthRequests \cup DirectRequests \cup MultipartRequests

OutputValues == {None, Some(""), Some("abc123")}
Outputs == [OutputFields -> OutputValues]

(***************************************************************************)
(* State machines                                                          *)
(***************************************************************************)
NoRequest == [bucket |-> "", key |-> "", headers |-> << >>, body |-> ConsumedBody,
              multipart |-> None]
NoResult == [ok |-> FALSE, err |-> "not run"]
NoOutput == [f \in OutputFields |-> None]
NoResponse == [ok |-> FALSE]

ExtractIdle == req = NoRequest /\ phase = "idle" /\ result = NoResult
OutputIdle == output = NoOutput /\ response = NoResponse
ServiceIdle ==
    /\ method = [r \in Reqs |-> "-"]
    /\ pc = [r \in Reqs |-> "idle"]
    /\ outcome = [r \in Reqs |-> NoOutcome]
    /\ trace = [r \in Reqs |-> << >>]
    /\ strong = 1

\* ---- extract ----
InitExtract ==
    /\ req \in ExtractRequests
    /\ phase = "received"
    /\ result = NoResult
    /\ OutputIdle /\ ServiceIdle

Extract ==
    /\ phase = "received"
    /\ result' = extract(req)
    /\ phase' = "extracted"
    /\ UNCHANGED <<req, outputVars, serviceVars>>

NextExtract == Extract
SpecExtract == InitExtract /\ [][NextExtract]_vars

\* ---- try_into_response ----
InitOutput ==
    /\ output \in Outputs
    /\ response = NoResponse
    /\ ExtractIdle /\ ServiceIdle

Serialize ==
    /\ response = NoResponse
    /\ response' = try_into_response(output)
    /\ UNCHANGED <<output, extractVars, serviceVars>>

NextOutput == Serialize
SpecOutput == InitOutput /\ [][NextOutput]_vars

\* ---- S3Service ----
Init == ExtractIdle /\ OutputIdle /\ ServiceIdle

\* hyper_call: clone the service (one more strong reference) and box the future
hyper_call(r, m) ==
    /\ pc[r] \in {"idle", "done"}
    /\ method' = [method EXCEPT ![r] = m]
    /\ pc' = [pc EXCEPT ![r] = "pending"]
    /\ outcome' = [outcome EXCEPT ![r] = NoOutcome]
    /\ trace' = [trace EXCEPT ![r] = << >>]
    /\ strong' = strong + 1
    /\ UNCHANGED <<extractVars, outputVars>>

\* the future runs to its end (or unwinds) and drops its clone of the service
poll(r) ==
    /\ pc[r] = "pending"
    /\ LET f == call_future(method[r])
       IN /\ outcome' = [outcome EXCEPT ![r] = f.outcome]
          /\ trace' = [trace EXCEPT ![r] = f.trace]
    /\ pc' = [pc EXCEPT ![r] = "done"]
    /\ strong' = strong - 1
    /\ UNCHANGED <<method, extractVars, outputVars>>

Next ==
    \/ \E r \in Reqs, m \in Methods : hyper_call(r, m)
    \/ \E r \in Reqs : poll(r)

Spec == Init /\ [][Next]_vars

(***************************************************************************)
(* Properties                                                              *)
(***************************************************************************)
Extracted == phase = "extracted"
OnMultipartPath == req.multipart.some
Succeeded == Extracted /\ result.ok

\* what the wire says, read without the code's helpers
IsSignedDecimal(s) ==
    LET body == IF s # "" /\ CharAt(s, 1) \in {"+", "-"} THEN Tail1(s) ELSE s
    IN body # "" /\ \A i \in 1..Len(body) : IsDigit(CharAt(body, i))

RECURSIVE StripZeros(_)
StripZeros(d) == IF Len(d) > 1 /\ CharAt(d, 1) = "0" THEN StripZeros(Tail1(d)) ELSE d

IntegerOf(s) ==
    LET signed == CharAt(s, 1) \in {"+", "-"}
        mag == StripZeros(IF signed THEN Tail1(s) ELSE s)
    IN [neg |-> CharAt(s, 1) = "-" /\ mag # "0", mag |-> mag]

InI64Range(v) == IF v.neg THEN MagLeq(v.mag, I64MinMag) ELSE MagLeq(v.mag, I64MaxMag)
IsI64Text(s) == IsSignedDecimal(s) /\ InI64Range(IntegerOf(s))

ContentLengthAt ==
    {i \in 1..Len(req.headers) : to_ascii_lowercase(req.headers[i][1]) = "content-length"}
ContentLengthText == req.headers[CHOOSE i \in ContentLengthAt : \A j \in ContentLengthAt : i <= j][2]

\* a name carries a metadata key: the prefix in any case, then at least one character
CarriesMetaKey(name) ==
    /\ Len(name) > Len(meta_prefix)
    /\ to_ascii_lowercase(SubSeq(name, 1, Len(meta_prefix))) = meta_prefix
MetaKeyOf(name) == to_ascii_lowercase(SubSeq(name, Len(meta_prefix) + 1, Len(name)))
MetaAt(pairs, k) ==
    {i \in 1..Len(pairs) : CarriesMetaKey(pairs[i][1]) /\ MetaKeyOf(pairs[i][1]) = k}
MetaKeys(pairs) ==
    {MetaKeyOf(pairs[i][1]) : i \in {j \in 1..Len(pairs) : CarriesMetaKey(pairs[j][1])}}
LastOf(S) == CHOOSE i \in S : \A j \in S : j <= i

FormFields == req.multipart.val.fields
FormHas(name) == \E i \in 1..Len(FormFields) : FormFields[i][1] = name
FormValue(name) == FormFields[CHOOSE i \in 1..Len(FormFields) : FormFields[i][1] = name][2]

\* C1: without a Content-Length header content_length is unset; with a value
\* that is a 64-bit signed integer the field is exactly that integer; with any
\* other value extract returns an error and no request.
C1_ContentLength ==
    Extracted =>
        IF ContentLengthAt = {} THEN result.ok => ~result.input["content_length"].some
        ELSE IF IsI64Text(ContentLengthText)
             THEN result.ok /\ result.input["content_length"] = Some(IntegerOf(ContentLengthText))
             ELSE ~result.ok /\ "input" \notin DOMAIN result

\* the smallest i64, written with its sign, has been parsed
C1_Witness ==
    /\ Succeeded
    /\ ContentLengthAt # {}
    /\ result.input["content_length"] = Some([neg |-> TRUE, mag |-> I64MinMag])

C3_FormFieldsOnly ==
    (Succeeded /\ OnMultipartPath) =>
        \A i \in 1..Len(FieldAssignments) :
            result.input[FieldAssignments[i][2]] =
                IF FormHas(FieldAssignments[i][1]) THEN Some(FormValue(FieldAssignments[i][1]))
                ELSE None

\* C4: with a multipart payload the metadata comes from the form field names
\* alone: headers add no entry, and without a form field carrying a key the
\* field is unset.
C4_FormMetadataOnly ==
    (Succeeded /\ OnMultipartPath) =>
        LET md == result.input["metadata"]
        IN /\ md.some <=> MetaKeys(FormFields) # {}
           /\ md.some => DOMAIN md.val = MetaKeys(FormFields)

\* C5: a successful extract always sets the body, from exactly one source:
\* the adapted transport body without a multipart payload, the adapted file
\* part's stream with one, and then never the transport body.
C5_BodySource ==
    Succeeded =>
        LET b == result.input["body"]
            src == IF OnMultipartPath THEN req.multipart.val.file.stream ELSE req.body
        IN /\ b.some
           /\ b.val.bytestream
           /\ b.val.origin = (IF OnMultipartPath THEN "file" ELSE "transport")
           /\ Len(b.val.chunks) = Len(src.chunks)
           /\ \A i \in 1..Len(src.chunks) :
                IF src.chunks[i].ok THEN b.val.chunks[i] = src.chunks[i]
                ELSE ~b.val.chunks[i].ok /\ b.val.chunks[i].err.kind = "Other"

\* the file part's stream became the body of a multipart request
C5_Witness ==
    /\ Succeeded /\ OnMultipartPath
    /\ result.input["body"].some
    /\ result.input["body"].val.origin = "file"
    /\ Len(result.input["body"].val.chunks) > 0

\* C6: each of the nine output fields has its header in the response, with
\* the stored value, exactly when the field is set; nothing else is emitted.
C6_OutputHeaders ==
    response # NoResponse =>
        LET headerOf == [f \in OutputFields |->
                CASE f = "expiration" -> "x-amz-expiration"
                  [] f = "e_tag" -> "etag"
                  [] f = "server_side_encryption" -> "x-amz-server-side-encryption"
                  [] f = "version_id" -> "x-amz-version-id"
                  [] f = "sse_customer_algorithm" -> "x-amz-server-side-encryption-customer-algorithm"
                  [] f = "sse_customer_key_md5" -> "x-amz-server-side-encryption-customer-key-md5"
                  [] f = "ssekms_key_id" -> "x-amz-server-side-encryption-aws-kms-key-id"
                  [] f = "ssekms_encryption_context" -> "x-amz-server-side-encryption-context"
                  [] f = "request_charged" -> "x-amz-request-charged"]
        IN /\ response.ok
           /\ Cardinality(OutputFields) = Len(OutputAssignments)
           /\ \A f \in OutputFields :
                /\ headerOf[f] \in DOMAIN response.res.headers <=> output[f].some
                /\ output[f].some => response.res.headers[headerOf[f]] = output[f].val
           /\ DOMAIN response.res.headers \subseteq {headerOf[f] : f \in OutputFields}

\* an output without ETag and with a version id, an empty one elsewhere, was serialized
C6_Witness ==
    /\ response # NoResponse
    /\ ~output["e_tag"].some
    /\ output["version_id"] = Some("abc123")
    /\ output["request_charged"] = Some("")
    /\ "etag" \notin DOMAIN response.res.headers
    /\ response.res.headers["x-amz-version-id"] = "abc123"

HandlerNames == {"handle_get", "handle_post", "handle_put", "handle_delete", "handle_head"}
BeyondRouter == {"extract", "storage", "serialize"}
HandlersIn(t) == SelectSeq(t, LAMBDA e : e \in HandlerNames)

\* C7: a request with a method other than GET, POST, PUT, DELETE, HEAD ends
\* in the error "Not supported" with no handler, extractor or backend call;
\* a request with one of the five enters exactly that method's handler.
C7_Routing ==
    \A r \in Reqs : pc[r] = "done" =>
        /\ \A i \in 1..Len(trace[r]) : trace[r][i] \notin BeyondRouter
        /\ IF method[r] \in {"GET", "POST", "PUT", "DELETE", "HEAD"}
           THEN HandlersIn(trace[r]) =
                    << CASE method[r] = "GET" -> "handle_get"
                         [] method[r] = "POST" -> "handle_post"
                         [] method[r] = "PUT" -> "handle_put"
                         [] method[r] = "DELETE" -> "handle_delete"
                         [] method[r] = "HEAD" -> "handle_head" >>
           ELSE /\ outcome[r] = [kind |-> "err", msg |-> "Not supported"]
                /\ HandlersIn(trace[r]) = << >>

\* a PATCH request and a HEAD request have both been routed
C7_Witness ==
    \E r, q \in Reqs :
        /\ pc[r] = "done" /\ method[r] = "PATCH"
        /\ pc[q] = "done" /\ method[q] = "HEAD"

====
